---- MODULE Spec2Model ----
(***************************************************************************)
(* Billing Pixel: document numbering, totals and version snapshots.        *)
(*                                                                         *)
(* Document numbers are character strings, modelled as sequences of        *)
(* one-character strings, so that the string operations of the code        *)
(* (startswith, the aggregate Max of a text column, split, replace, int,   *)
(* the 04d format) are computed as the code computes them.                 *)
(***************************************************************************)
EXTENDS Integers, Sequences, FiniteSets, TLC

VARIABLES
    docs,       \* the Invoice, Quote and Receipt tables: a set of rows
    nextId,     \* the next primary key; ids follow creation order (created_at)
    year,       \* timezone.now().year
    issued,     \* history: every [dtype, number] a stored row ever carried
    lastOp,     \* the last request handled and its outcome
    req,        \* in-flight save() calls, for the read-then-insert race
    items,      \* the line items of each invoice and quote, by document id
    rates,      \* tax_rate and discount_rate of each document, by document id
    company,    \* the branding fields of each company
    versioned_data, \* the stored snapshot of each document, by document id
    firstLock,  \* history: the first snapshot stored for each document
    now,        \* timezone.now()
    pdf_logs,   \* the PDFLog table
    files,      \* the files under PDF_TEMP_STORAGE_PATH: path |-> content
    audit_logs, \* the AuditLog table: its rows and its primary-key sequence
    converted_to_invoice, \* Quote.converted_to_invoice, by quote id
    calls       \* in-flight convert_to_invoice and serve_pdf_download calls

numVars == <<docs, nextId, year, issued, req>>

\* the per-document columns and tables
docCols == <<items, rates, versioned_data, firstLock>>

docVars ==
    <<items, rates, company, versioned_data, firstLock, now, pdf_logs, files>>

\* the audit table, the quote-to-invoice links and the calls in flight
sideVars == <<audit_logs, converted_to_invoice, calls>>

vars == <<docs, nextId, year, issued, lastOp, req, items, rates, company,
          versioned_data, firstLock, now, pdf_logs, files, audit_logs,
          converted_to_invoice, calls>>

-----------------------------------------------------------------------------
(* Bounds of the model *)

MaxDocs == 3            \* rows ever inserted
MaxItems == 2           \* line items of one document
MaxSnapshotItems == 1   \* line items of one document where snapshots are taken
MaxClock == 2           \* ticks of the clock
MaxPdfs == 2            \* PDFLog rows
MaxDays == 1            \* the days argument of the cleanup, in ticks
PdfExpires == 1         \* settings.PDF_DOWNLOAD_EXPIRES_SECONDS, in ticks
FirstYear == 2025       \* the calendar year the model starts in
YearSpan == 1           \* calendar years after the first one
MaxRaceDocs == 2        \* rows ever inserted while save() calls interleave
MaxGateDocs == 2        \* last row id a gated create request may use
MaxAudit == 2           \* audit rows ever written

(* Program constants *)

PadWidth == 4           \* the 04d of the number format

LastYear == FirstYear + YearSpan

-----------------------------------------------------------------------------
(* Character strings *)

\* The characters used, in code-point order ("-" < digits < upper case).
Alphabet ==
    <<"-", "0", "1", "2", "3", "4", "5", "6", "7", "8", "9",
      "A", "B", "C", "D", "E", "F", "G", "H", "I", "J", "K", "L", "M",
      "N", "O", "P", "Q", "R", "S", "T", "U", "V", "W", "X", "Y", "Z">>

Ord(c) == CHOOSE i \in 1..Len(Alphabet) : Alphabet[i] = c

DigitChars == <<"0", "1", "2", "3", "4", "5", "6", "7", "8", "9">>

IsDigit(c) == \E i \in 1..10 : DigitChars[i] = c

DigitVal(c) == (CHOOSE i \in 1..10 : DigitChars[i] = c) - 1

AllDigits(s) == \A i \in 1..Len(s) : IsDigit(s[i])

RECURSIVE DigitsVal(_)
DigitsVal(s) ==
    IF s = <<>> THEN 0
    ELSE 10 * DigitsVal(SubSeq(s, 1, Len(s) - 1)) + DigitVal(s[Len(s)])

\* str(n) for n >= 0
RECURSIVE Str(_)
Str(n) ==
    IF n < 10 THEN <<DigitChars[n + 1]>>
    ELSE Append(Str(n \div 10), DigitChars[(n % 10) + 1])

RECURSIVE ZeroPad(_, _)
ZeroPad(s, w) == IF Len(s) >= w THEN s ELSE ZeroPad(<<"0">> \o s, w)

\* A number format that keeps only the last PadWidth digits
Format04d_Truncating(n) ==
    IF n < 0 THEN <<"-">> \o ZeroPad(Str((0 - n) % 1000), PadWidth - 1)
    ELSE ZeroPad(Str(n % 10000), PadWidth)

\* f"{n:04d}": at least PadWidth characters, the sign included, never truncated
Format04d(n) ==
    IF n < 0 THEN <<"-">> \o ZeroPad(Str(0 - n), PadWidth - 1)
    ELSE ZeroPad(Str(n), PadWidth)

StartsWith(s, p) == Len(s) >= Len(p) /\ SubSeq(s, 1, Len(p)) = p

\* a < b in the binary collation of the number column
RECURSIVE StrLess(_, _)
StrLess(a, b) ==
    IF a = <<>> THEN b # <<>>
    ELSE IF b = <<>> THEN FALSE
    ELSE IF Head(a) = Head(b) THEN StrLess(Tail(a), Tail(b))
    ELSE Ord(Head(a)) < Ord(Head(b))

\* None, and the empty string: both are falsy where the code tests a number
None == <<>>

\* .aggregate(Max("number"))["number__max"]: the greatest STRING, None if no row
AggregateMax(S) ==
    IF S = {} THEN None
    ELSE CHOOSE x \in S : \A y \in S : ~StrLess(x, y)

\* s.split("-")[-1]
RECURSIVE SplitLast(_)
SplitLast(s) ==
    IF s = <<>> THEN <<>>
    ELSE IF s[Len(s)] = "-" THEN <<>>
    ELSE Append(SplitLast(SubSeq(s, 1, Len(s) - 1)), s[Len(s)])

\* s.replace(p, ''), p not empty
RECURSIVE Replace(_, _)
Replace(s, p) ==
    IF Len(s) < Len(p) THEN s
    ELSE IF StartsWith(s, p) THEN Replace(SubSeq(s, Len(p) + 1, Len(s)), p)
    ELSE <<Head(s)>> \o Replace(Tail(s), p)

\* int(s) over the alphabet: an optional sign and decimal digits, else ValueError
ParseInt(s) ==
    IF s # <<>> /\ AllDigits(s) THEN [err |-> FALSE, val |-> DigitsVal(s)]
    ELSE IF Len(s) > 1 /\ Head(s) = "-" /\ AllDigits(Tail(s))
        THEN [err |-> FALSE, val |-> 0 - DigitsVal(Tail(s))]
    ELSE [err |-> TRUE, val |-> 0]

-----------------------------------------------------------------------------
(* Companies and their numbering prefixes *)

Companies == {"A", "B"}

DocTypes == {"invoice", "quote", "receipt"}

\* Company.invoice_prefix / quote_prefix / receipt_prefix. A and B keep the
\* field defaults, except that B has set a quote prefix of its own.
PrefixOf(c, t) ==
    IF t = "invoice" THEN <<"I", "N", "V">>
    ELSE IF t = "receipt" THEN <<"R", "E", "C">>
    ELSE IF c = "B" THEN <<"Q", "T">>
    ELSE <<"Q", "U", "O">>

\* f"{prefix}-{year}-"
YearPrefix(c, t, y) == PrefixOf(c, t) \o <<"-">> \o Str(y) \o <<"-">>

\* Model.objects.filter(company=c, number__startswith=p) on the table of type t
FilterStartsWith(D, c, t, p) ==
    {d \in D : d.dtype = t /\ d.company = c /\ StartsWith(d.number, p)}

\* The number-assigning part of Invoice.save, Quote.save and Receipt.save for
\* an instance whose number is empty: [err, number]. err is the ValueError
\* that int() raises on a tail that is no integer.
SaveNumber(D, c, t, y) ==
    LET prefix == YearPrefix(c, t, y)
        last_number ==
            AggregateMax({d.number : d \in FilterStartsWith(D, c, t, prefix)})
        last_seq == ParseInt(SplitLast(last_number))
        new_seq == IF last_number # None THEN last_seq.val + 1 ELSE 1
    IN  IF last_number # None /\ last_seq.err
        THEN [err |-> TRUE, number |-> None]
        ELSE [err |-> FALSE, number |-> prefix \o Format04d(new_seq)]

\* .order_by('-created_at').first(): ids follow creation order
LatestDoc(S) == CHOOSE d \in S : \A e \in S : e.id <= d.id

\* utils.generate_next_number
generate_next_number(D, c, t) ==
    LET own == PrefixOf(c, t)
        prefix == IF own # <<>> THEN own
                  ELSE IF t = "invoice" THEN <<"I", "N", "V", "-">>
                  ELSE IF t = "quote" THEN <<"Q", "U", "O", "-">>
                  ELSE <<"R", "E", "C", "-">>
        found == FilterStartsWith(D, c, t, prefix)
        current_number == ParseInt(Replace(LatestDoc(found).number, prefix))
        next_number ==
            IF found # {} /\ ~current_number.err THEN current_number.val + 1
            ELSE 1
    IN  prefix \o Format04d(next_number)

\* A number column without its unique constraint
UniqueOk_Missing(D, t, n) == TRUE

\* unique=True on BaseDocument.number: one constraint per table, across companies
UniqueOk(D, t, n) == ~\E d \in D : d.dtype = t /\ d.number = n

\* created_year is the year of created_at (auto_now_add)
NewRow(c, t, n) ==
    [id |-> nextId, dtype |-> t, company |-> c, number |-> n,
     created_year |-> year]

-----------------------------------------------------------------------------
(* Decimal arithmetic. A Decimal is a coefficient c and a number e of      *)
(* decimal places, value c / 10^e. Python compares Decimals by value, so   *)
(* every result is kept reduced (no trailing zero among the places). All   *)
(* results below stay far inside the 28 significant digits of the default  *)
(* context, so no operation rounds.                                        *)

RECURSIVE Pow10(_)
Pow10(k) == IF k = 0 THEN 1 ELSE 10 * Pow10(k - 1)

RECURSIVE DecNorm(_)
DecNorm(x) ==
    IF x.e > 0 /\ x.c % 10 = 0
    THEN DecNorm([c |-> x.c \div 10, e |-> x.e - 1])
    ELSE x

Dec(c, e) == DecNorm([c |-> c, e |-> e])

DecMax(a, b) == IF a >= b THEN a ELSE b

DecAdd(a, b) ==
    LET e == DecMax(a.e, b.e)
    IN  Dec(a.c * Pow10(e - a.e) + b.c * Pow10(e - b.e), e)

DecSub(a, b) ==
    LET e == DecMax(a.e, b.e)
    IN  Dec(a.c * Pow10(e - a.e) - b.c * Pow10(e - b.e), e)

DecMul(a, b) == Dec(a.c * b.c, a.e + b.e)

\* x / 100
DecDiv100(a) == Dec(a.c, a.e + 2)

\* an int operand of a Decimal operation
DecInt(n) == Dec(n, 0)

\* float(x): the double nearest to x. Within the values of this model two
\* Decimals of different value give different doubles.
ToFloat(x) == <<"float", DecNorm(x).c, DecNorm(x).e>>

-----------------------------------------------------------------------------
(* Line items and the totals of a document *)

\* InvoiceLineItem / QuoteLineItem rows: quantity, unit_price, discount (%)
ItemKinds ==
    {[quantity |-> 2, unit_price |-> Dec(10000, 2), discount |-> Dec(1000, 2)],
     [quantity |-> 1, unit_price |-> Dec(50, 2), discount |-> Dec(0, 2)],
     [quantity |-> 3, unit_price |-> Dec(1999, 2), discount |-> Dec(0, 2)]}

\* the item kinds used where snapshots are taken
SnapshotKinds == {k \in ItemKinds : k.quantity < 3}

\* tax_rate and discount_rate of a document (%)
DefaultRates == [tax_rate |-> Dec(0, 2), discount_rate |-> Dec(0, 2)]

RateChoices ==
    {[tax_rate |-> t, discount_rate |-> r] :
        t \in {Dec(0, 2), Dec(825, 2)}, r \in {Dec(0, 2), Dec(500, 2)}}

\* InvoiceLineItem.line_total / QuoteLineItem.line_total
line_total(item) ==
    LET subtotal_ == DecMul(DecInt(item.quantity), item.unit_price)
        discount_amount == DecDiv100(DecMul(subtotal_, item.discount))
    IN  DecSub(subtotal_, discount_amount)

\* sum(...) over a list: 0 + x1 + x2 + ...
RECURSIVE DecSum(_)
DecSum(s) ==
    IF s = <<>> THEN DecInt(0)
    ELSE DecAdd(DecSum(SubSeq(s, 1, Len(s) - 1)), s[Len(s)])

\* A property either returns a value or raises
Value(v) == [err |-> "none", val |-> v]

Raised(e) == [err |-> e, val |-> DecInt(0)]

\* self.items: the reverse relation of InvoiceLineItem.invoice and
\* QuoteLineItem.quote; no model gives Receipt an attribute items
HasItems(d) == d.dtype \in {"invoice", "quote"}

\* BaseDocument.subtotal
subtotal(d) ==
    IF HasItems(d)
    THEN Value(DecSum([i \in 1..Len(items[d.id]) |-> line_total(items[d.id][i])]))
    ELSE Raised("AttributeError")

\* BaseDocument.tax_total
tax_total(d) ==
    LET s == subtotal(d)
    IN  IF s.err # "none" THEN s
        ELSE Value(DecDiv100(DecMul(s.val, rates[d.id].tax_rate)))

\* BaseDocument.discount_total
discount_total(d) ==
    LET s == subtotal(d)
    IN  IF s.err # "none" THEN s
        ELSE Value(DecDiv100(DecMul(s.val, rates[d.id].discount_rate)))

\* BaseDocument.total
total(d) ==
    LET s == subtotal(d)
        t == tax_total(d)
        r == discount_total(d)
    IN  IF s.err # "none" THEN s
        ELSE Value(DecSub(DecAdd(s.val, t.val), r.val))

-----------------------------------------------------------------------------
(* Company branding and the version snapshot *)

\* Company.primary_color, accent_color, font_family; the first is the default
DefaultBranding ==
    [primary_color |-> <<"#", "6", "B", "4", "6", "C", "1">>,
     accent_color |-> <<"#", "8", "B", "5", "C", "F", "6">>,
     font_family |-> "Inter, system-ui, sans-serif"]

Brandings ==
    {DefaultBranding,
     [DefaultBranding EXCEPT !.primary_color = <<"#", "F", "F", "0", "0", "0", "0">>],
     [DefaultBranding EXCEPT !.accent_color = <<"#", "0", "0", "F", "F", "0", "0">>,
                             !.font_family = "Roboto, sans-serif"]}

HexChars ==
    <<"0", "1", "2", "3", "4", "5", "6", "7", "8", "9", "A", "B", "C", "D", "E", "F">>

HexVal(ch) == (CHOOSE i \in 1..16 : HexChars[i] = ch) - 1

\* hex.lstrip('#')
RECURSIVE LStripHash(_)
LStripHash(s) == IF s # <<>> /\ Head(s) = "#" THEN LStripHash(Tail(s)) ELSE s

\* Company.get_rgb_primary / get_rgb_accent
get_rgb(color) ==
    LET hex_color == LStripHash(color)
    IN  [k \in 1..3 |-> 16 * HexVal(hex_color[2 * k - 1]) + HexVal(hex_color[2 * k])]

\* the values generate_themed_css substitutes into its template
generate_themed_css(co) ==
    [primary |-> get_rgb(co.primary_color),
     accent |-> get_rgb(co.accent_color),
     font_family |-> co.font_family]

\* versioned_data of a document never locked: the empty dict
EmptyData == [locked |-> FALSE]

\* The dict lock_version_data builds. Of the company only the branding
\* fields are kept, of the document the fields some operation here changes.
Snapshot(d) ==
    [locked |-> TRUE,
     company |-> company[d.company],
     document |-> [number |-> d.number,
                   tax_rate |-> ToFloat(rates[d.id].tax_rate),
                   discount_rate |-> ToFloat(rates[d.id].discount_rate)],
     items |-> [i \in 1..Len(items[d.id]) |->
                  [quantity |-> items[d.id][i].quantity,
                   unit_price |-> ToFloat(items[d.id][i].unit_price),
                   discount |-> ToFloat(items[d.id][i].discount),
                   line_total |-> ToFloat(line_total(items[d.id][i]))]],
     totals |-> [subtotal |-> ToFloat(subtotal(d).val),
                 tax_total |-> ToFloat(tax_total(d).val),
                 discount_total |-> ToFloat(discount_total(d).val),
                 total |-> ToFloat(total(d).val)],
     locked_at |-> now]

\* create_pdf_for_document locking on every call
NeedsLock_Always(vd) == TRUE

\* "if not document.versioned_data": an empty dict is false, a snapshot is not
NeedsLock(vd) == vd = EmptyData

\* Removal of a document's entry from a per-document column
Drop(f, id) == [i \in DOMAIN f \ {id} |-> f[i]]

-----------------------------------------------------------------------------
(* Requests, each handled in one step *)

Procs == {"p1", "p2"}

\* no convert_to_invoice or serve_pdf_download call in flight
IdleCall == [pc |-> "idle", arg |-> 0, seen |-> None, result |-> "none"]

\* no audit rows, no quote converted, no call in flight
InitSide ==
    /\ audit_logs = [rows |-> {}, next_id |-> 1]
    /\ converted_to_invoice = <<>>
    /\ calls = [p \in Procs |-> IdleCall]

Idle == [pc |-> "idle", company |-> "A", dtype |-> "invoice",
         last_number |-> None, number |-> None, year |-> FirstYear,
         result |-> "none"]

Op(op, c, t, n, r) ==
    [op |-> op, company |-> c, dtype |-> t, number |-> n, result |-> r]

\* models.Model.save after the number is set: the INSERT and its constraint
Insert(op, c, t, n) ==
    /\ IF UniqueOk(docs, t, n)
       THEN /\ docs' = docs \cup {NewRow(c, t, n)}
            /\ nextId' = nextId + 1
            /\ issued' = issued \cup {<<t, n>>}
            /\ items' = items @@ (nextId :> <<>>)
            /\ rates' = rates @@ (nextId :> DefaultRates)
            /\ versioned_data' = versioned_data @@ (nextId :> EmptyData)
            /\ firstLock' = firstLock @@ (nextId :> EmptyData)
            /\ lastOp' = Op(op, c, t, n, "ok")
       ELSE /\ lastOp' = Op(op, c, t, n, "IntegrityError")
            /\ UNCHANGED <<docs, nextId, issued>>
            /\ UNCHANGED docCols
    /\ UNCHANGED <<company, now, pdf_logs, files>>
    /\ UNCHANGED sideVars

\* Invoice.save / Quote.save / Receipt.save of a new instance with no number
SaveNew(c, t) ==
    /\ nextId <= MaxDocs
    /\ LET n == SaveNumber(docs, c, t, year)
       IN  IF n.err
           THEN /\ lastOp' = Op("save", c, t, None, "ValueError")
                /\ UNCHANGED <<docs, nextId, issued>>
                /\ UNCHANGED docVars
           ELSE Insert("save", c, t, n.number)
    /\ UNCHANGED <<year, req>>

\* invoice_create_view / quote_create_view / receipt_create_view, valid POST:
\* the number comes from generate_next_number, then save() inserts the row
ViewCreate(c, t) ==
    /\ nextId <= MaxDocs
    /\ Insert("view_create", c, t, generate_next_number(docs, c, t))
    /\ UNCHANGED <<year, req>>

\* The admin site's delete of a registered document model: the row is removed,
\* and with it its line items (on_delete=CASCADE)
AdminDelete(d) ==
    /\ docs' = docs \ {d}
    /\ items' = Drop(items, d.id)
    /\ rates' = Drop(rates, d.id)
    /\ versioned_data' = Drop(versioned_data, d.id)
    /\ firstLock' = Drop(firstLock, d.id)
    /\ lastOp' = Op("delete", d.company, d.dtype, d.number, "ok")
    /\ UNCHANGED <<nextId, year, issued, req>>
    /\ UNCHANGED <<company, now, pdf_logs, files>>
    /\ UNCHANGED sideVars

\* The calendar year changes
NewYear ==
    /\ year < LastYear
    /\ year' = year + 1
    /\ lastOp' = Op("new_year", "A", "invoice", None, "ok")
    /\ UNCHANGED <<docs, nextId, issued, req>>
    /\ UNCHANGED docVars
    /\ UNCHANGED sideVars

-----------------------------------------------------------------------------
(* Operations on a stored document, each handled in one step *)

DocOp(op, id, r, context, css) ==
    [op |-> op, doc |-> id, result |-> r, context |-> context, css |-> css]

\* InvoiceLineItem / QuoteLineItem: a row is created for the document
AddItem(d, k) ==
    /\ HasItems(d)
    /\ Len(items[d.id]) < MaxItems
    /\ items' = [items EXCEPT ![d.id] = Append(@, k)]
    /\ lastOp' = DocOp("add_item", d.id, "ok", None, None)
    /\ UNCHANGED <<rates, company, versioned_data, firstLock, now, pdf_logs, files>>
    /\ UNCHANGED numVars
    /\ UNCHANGED sideVars

\* a line item's quantity, unit_price or discount is changed and saved
EditItem(d, i, k) ==
    /\ HasItems(d)
    /\ i \in 1..Len(items[d.id])
    /\ items[d.id][i] # k
    /\ items' = [items EXCEPT ![d.id][i] = k]
    /\ lastOp' = DocOp("edit_item", d.id, "ok", None, None)
    /\ UNCHANGED <<rates, company, versioned_data, firstLock, now, pdf_logs, files>>
    /\ UNCHANGED numVars
    /\ UNCHANGED sideVars

\* a line item is deleted
DeleteItem(d, i) ==
    /\ HasItems(d)
    /\ i \in 1..Len(items[d.id])
    /\ items' = [items EXCEPT ![d.id] =
                    SubSeq(@, 1, i - 1) \o SubSeq(@, i + 1, Len(@))]
    /\ lastOp' = DocOp("delete_item", d.id, "ok", None, None)
    /\ UNCHANGED <<rates, company, versioned_data, firstLock, now, pdf_logs, files>>
    /\ UNCHANGED numVars
    /\ UNCHANGED sideVars

\* tax_rate and discount_rate of the document are changed and saved
SetRates(d, r) ==
    /\ rates[d.id] # r
    /\ rates' = [rates EXCEPT ![d.id] = r]
    /\ lastOp' = DocOp("set_rates", d.id, "ok", None, None)
    /\ UNCHANGED <<items, company, versioned_data, firstLock, now, pdf_logs, files>>
    /\ UNCHANGED numVars
    /\ UNCHANGED sideVars

\* the company's colors and font are changed and saved
ChangeBranding(c, b) ==
    /\ company[c] # b
    /\ company' = [company EXCEPT ![c] = b]
    /\ lastOp' = DocOp("branding", 0, "ok", None, None)
    /\ UNCHANGED <<items, rates, versioned_data, firstLock, now, pdf_logs, files>>
    /\ UNCHANGED numVars
    /\ UNCHANGED sideVars

\* time passes
Tick ==
    /\ now < MaxClock
    /\ now' = now + 1
    /\ lastOp' = DocOp("tick", 0, "ok", None, None)
    /\ UNCHANGED <<items, rates, company, versioned_data, firstLock, pdf_logs, files>>
    /\ UNCHANGED numVars
    /\ UNCHANGED sideVars

\* BaseDocument.lock_version_data: the dict is built and saved, whatever
\* versioned_data held; on a Receipt self.items raises first
LockVersionData(d) ==
    /\ IF HasItems(d)
       THEN /\ versioned_data' = [versioned_data EXCEPT ![d.id] = Snapshot(d)]
            /\ firstLock' = [firstLock EXCEPT ![d.id] =
                                IF @ = EmptyData THEN Snapshot(d) ELSE @]
            /\ lastOp' = DocOp("lock", d.id, "ok", Snapshot(d), None)
       ELSE /\ lastOp' = DocOp("lock", d.id, "AttributeError", EmptyData, None)
            /\ UNCHANGED <<versioned_data, firstLock>>
    /\ UNCHANGED <<items, rates, company, now, pdf_logs, files>>
    /\ UNCHANGED numVars
    /\ UNCHANGED sideVars

\* An empty PDF_TEMP_STORAGE_PATH
NoFiles == [p \in {} |-> None]

\* open(file_path, 'wb') and write: the file is created or replaced
WriteFile(f, path, content) ==
    [p \in DOMAIN f \cup {path} |-> IF p = path THEN content ELSE f[p]]

\* os.remove(path)
RemoveFile(f, path) == [p \in DOMAIN f \ {path} |-> f[p]]

\* generate_pdf_from_html(render_to_string(template_name, context), css_content):
\* the bytes are determined by what the renderer is handed, the template
\* chosen by document_type, the context (versioned_data and the live company;
\* the live document object is passed too) and the themed CSS
generate_pdf(document_type, vd, co, css) ==
    [template |-> document_type, versioned_data |-> vd, company |-> co, css |-> css]

\* PDFLog.objects.create in create_pdf_for_document; the token is a fresh
\* random string, named here by its rank
NewPdfLog(d, document_type) ==
    [download_token |-> Cardinality(pdf_logs) + 1,
     company |-> d.company,
     document_type |-> document_type,
     document_id |-> d.id,
     created_at |-> now,
     expires_at |-> now + PdfExpires,
     file_path |-> <<document_type, d.number, Cardinality(pdf_logs) + 1>>,
     downloaded_at |-> None,
     deleted |-> FALSE]

\* create_pdf_for_document(document, document_type): lock if versioned_data is
\* empty, render the template with versioned_data and the themed CSS of the
\* company, then store a PDFLog and the file. The renderer may raise
\* (fault "render"); the lock is saved before it runs. Writing the file may
\* raise (fault "write"); the PDFLog row is created before, its file_path is
\* set after.
CreatePdf(d, document_type, fault) ==
    /\ Cardinality(pdf_logs) < MaxPdfs
    /\ LET needs == NeedsLock(versioned_data[d.id])
           vd == IF needs THEN Snapshot(d) ELSE versioned_data[d.id]
           css == generate_themed_css(company[d.company])
           log == NewPdfLog(d, document_type)
           pdf_bytes == generate_pdf(document_type, vd, company[d.company], css)
       IN  IF needs /\ ~HasItems(d)
           THEN /\ lastOp' = DocOp("create_pdf", d.id, "AttributeError", EmptyData, None)
                /\ UNCHANGED <<versioned_data, firstLock, pdf_logs, files>>
           ELSE /\ versioned_data' = [versioned_data EXCEPT ![d.id] = vd]
                /\ firstLock' = [firstLock EXCEPT ![d.id] =
                                    IF @ = EmptyData THEN vd ELSE @]
                /\ CASE fault = "none" ->
                          /\ pdf_logs' = pdf_logs \cup {log}
                          /\ files' = WriteFile(files, log.file_path, pdf_bytes)
                          /\ lastOp' = DocOp("create_pdf", d.id, "ok", vd, css)
                     [] fault = "render" ->
                          /\ lastOp' = DocOp("create_pdf", d.id, "RenderError", vd, css)
                          /\ UNCHANGED <<pdf_logs, files>>
                     [] fault = "write" ->
                          /\ pdf_logs' = pdf_logs \cup {[log EXCEPT !.file_path = None]}
                          /\ lastOp' = DocOp("create_pdf", d.id, "OSError", vd, css)
                          /\ UNCHANGED files
    /\ UNCHANGED <<items, rates, company, now>>
    /\ UNCHANGED numVars
    /\ UNCHANGED sideVars

-----------------------------------------------------------------------------
(* Download and cleanup of generated PDFs *)

PdfOp(op, arg, r, content) ==
    [op |-> op, arg |-> arg, result |-> r, content |-> content]

\* A link that never expires
is_expired_Never(pdf_log) == FALSE

\* PDFLog.is_expired
is_expired(pdf_log) == now > pdf_log.expires_at

\* get_object_or_404(PDFLog, download_token=token); the token is unique
LogsOfToken(token) == {l \in pdf_logs : l.download_token = token}

\* what serve_pdf_download answers for a token: the file, or Http404
CanServe(token) ==
    /\ LogsOfToken(token) # {}
    /\ \A pdf_log \in LogsOfToken(token) :
          /\ ~is_expired(pdf_log)
          /\ pdf_log.file_path # None
          /\ pdf_log.file_path \in DOMAIN files

\* A download stamped on every request
MarkDownloaded_Always(pdf_log) == [pdf_log EXCEPT !.downloaded_at = <<now>>]

\* "if not pdf_log.downloaded_at": the first download stamps the row
MarkDownloaded(pdf_log) ==
    [pdf_log EXCEPT !.downloaded_at = IF @ = None THEN <<now>> ELSE @]

\* serve_pdf_download(request, token)
ServeDownload(token) ==
    /\ IF CanServe(token)
       THEN LET pdf_log == CHOOSE l \in LogsOfToken(token) : TRUE
            IN  /\ pdf_logs' = (pdf_logs \ {pdf_log}) \cup {MarkDownloaded(pdf_log)}
                /\ lastOp' = PdfOp("download", token, "ok", files[pdf_log.file_path])
       ELSE /\ lastOp' = PdfOp("download", token, "Http404", None)
            /\ UNCHANGED pdf_logs
    /\ UNCHANGED <<items, rates, company, versioned_data, firstLock, now, files>>
    /\ UNCHANGED numVars
    /\ UNCHANGED sideVars

\* A file of PDF_TEMP_STORAGE_PATH is removed by something other than this
\* program
FileLost(path) ==
    /\ path \in DOMAIN files
    /\ files' = RemoveFile(files, path)
    /\ lastOp' = PdfOp("file_lost", path, "ok", None)
    /\ UNCHANGED <<items, rates, company, versioned_data, firstLock, now, pdf_logs>>
    /\ UNCHANGED numVars
    /\ UNCHANGED sideVars

\* A cleanup that ignores the age of the rows
expired_logs_All(days) == {l \in pdf_logs : ~l.deleted}

\* A cleanup query that forgets the deleted flag
expired_logs_Again(days) == {l \in pdf_logs : l.created_at < now - days}

\* the rows cleanup_expired_pdfs(days) selects
expired_logs(days) ==
    {l \in pdf_logs : l.created_at < now - days /\ ~l.deleted}

\* cleanup_expired_pdfs(days): for each selected row the file is removed if it
\* exists, the row is marked deleted and its file_path cleared; os.remove may
\* raise for a row (failed), which is logged and leaves that row as it was.
\* Returns the number of rows marked.
CleanupExpiredPdfs(days, failed) ==
    /\ failed \subseteq {l \in expired_logs(days) :
                            l.file_path # None /\ l.file_path \in DOMAIN files}
    /\ LET cleaned == expired_logs(days) \ failed
       IN  /\ pdf_logs' =
                (pdf_logs \ cleaned) \cup
                    {[l EXCEPT !.deleted = TRUE, !.file_path = None] : l \in cleaned}
           /\ files' = [p \in DOMAIN files \ {l.file_path : l \in cleaned} |-> files[p]]
           /\ lastOp' = PdfOp("cleanup", <<days, failed # {}>>, Cardinality(cleaned), None)
    /\ UNCHANGED <<items, rates, company, versioned_data, firstLock, now>>
    /\ UNCHANGED numVars
    /\ UNCHANGED sideVars

\* The cleanup_pdfs management command: with --dry-run nothing is changed,
\* otherwise cleanup_expired_pdfs(days) runs (when no row is older than the
\* cutoff the command returns early, and the function would select no row)
CleanupCommand(days, dry_run, failed) ==
    IF dry_run
    THEN /\ failed = {}
         /\ lastOp' = PdfOp("dry_run", <<days, FALSE>>,
                            Cardinality({l \in pdf_logs : l.created_at < now - days}),
                            None)
         /\ UNCHANGED <<pdf_logs, files>>
         /\ UNCHANGED <<items, rates, company, versioned_data, firstLock, now>>
         /\ UNCHANGED numVars
         /\ UNCHANGED sideVars
    ELSE CleanupExpiredPdfs(days, failed)

-----------------------------------------------------------------------------
(* Roles and permissions *)

Roles == {"owner", "admin", "accountant", "user"}

Statuses ==
    {"draft", "sent", "viewed", "paid", "partially_paid", "overdue", "cancelled"}

UserNames == {"u1", "u2"}

\* request.user without a session: AnonymousUser has no company and no role
Anonymous ==
    [name |-> "anonymous", is_authenticated |-> FALSE, company |-> "none",
     role |-> "none"]

\* request.user: a stored user (company may be unset), or AnonymousUser
Users ==
    {Anonymous} \cup
    [name : UserNames, is_authenticated : {TRUE},
     company : Companies \cup {"none"}, role : Roles]

\* the permission names asked for in the code and in the specification;
\* the decorators in views_new.py pass a one-element list, written "[...]"
Permissions ==
    {"create_invoice", "create_receipt", "view_reports", "create_quote",
     "view_invoice", "[add_invoice]"}

\* An accountant allowed everything
has_company_permission_Open(user, permission_type) ==
    user.role \in {"owner", "admin", "accountant"}

\* User.has_company_permission
has_company_permission(user, permission_type) ==
    IF user.role \in {"owner", "admin"} THEN TRUE
    ELSE IF user.role = "accountant"
            /\ permission_type \in {"create_invoice", "create_receipt", "view_reports"}
         THEN TRUE
         ELSE FALSE

\* "not hasattr(user, 'company') or not user.company"
NoCompany(user) == user.company = "none"

\* Access without the creator test
can_user_access_document_Open(user, document) ==
    user.is_authenticated /\ ~NoCompany(user) /\ document.company = user.company

\* permissions.can_user_access_document (can_view_document)
can_user_access_document(user, document) ==
    IF ~user.is_authenticated THEN FALSE
    ELSE IF NoCompany(user) THEN FALSE
    ELSE IF document.company # user.company THEN FALSE
    ELSE IF user.role \in {"owner", "admin"} THEN TRUE
    ELSE IF user.role = "accountant" THEN TRUE
    ELSE IF document.created_by = user.name THEN TRUE
    ELSE FALSE

\* the statuses on which only owner and admin may edit
EditLocked_None == {}

EditLocked == {"sent", "paid", "partially_paid"}

\* permissions.can_user_edit_document (can_edit_document)
can_user_edit_document(user, document) ==
    IF ~can_user_access_document(user, document) THEN FALSE
    ELSE IF document.status \in EditLocked /\ user.role \notin {"owner", "admin"}
         THEN FALSE
         ELSE TRUE

\* the statuses on which nobody may delete
DeleteLocked_None == {}

DeleteLocked == {"paid", "partially_paid"}

\* Deletion open to every role that has access
can_user_delete_document_AnyRole(user, document) ==
    can_user_access_document(user, document) /\ document.status \notin DeleteLocked

\* permissions.can_user_delete_document (can_delete_document)
can_user_delete_document(user, document) ==
    IF ~can_user_access_document(user, document) THEN FALSE
    ELSE IF user.role \notin {"owner", "admin"} THEN FALSE
    ELSE IF document.status \in DeleteLocked THEN FALSE
    ELSE TRUE

\* A gate that lets every authenticated user of a company through
require_company_permission_Open(user, permission_type) ==
    IF ~user.is_authenticated THEN "PermissionDenied"
    ELSE IF NoCompany(user) THEN "PermissionDenied"
    ELSE "pass"

\* permissions.require_company_permission, _wrapped_view up to the call of
\* the view
require_company_permission(user, permission_type) ==
    IF ~user.is_authenticated THEN "PermissionDenied"
    ELSE IF NoCompany(user) THEN "PermissionDenied"
    ELSE IF ~has_company_permission(user, permission_type) THEN "PermissionDenied"
    ELSE "pass"

\* permissions.CompanyPermissionMixin.dispatch up to super().dispatch:
\* any one of required_permissions suffices, an empty list asks for none
CompanyPermissionMixin_dispatch(user, required_permissions) ==
    IF ~user.is_authenticated THEN "PermissionDenied"
    ELSE IF NoCompany(user) THEN "PermissionDenied"
    ELSE IF /\ required_permissions # <<>>
            /\ ~\E i \in 1..Len(required_permissions) :
                   has_company_permission(user, required_permissions[i])
         THEN "PermissionDenied"
         ELSE "pass"

PermOp(op, user, target, r) ==
    [op |-> op, user |-> user, target |-> target, result |-> r]

\* get_object_or_404(Model, id=..., company=request.user.company)
InCompanyOf(user, d) == ~NoCompany(user) /\ d.company = user.company

\* invoice_detail_view / quote_detail_view / receipt_detail_view, behind
\* login_required
DetailRequest(user, d) ==
    /\ lastOp' = PermOp("detail", user, d.id,
                        IF ~user.is_authenticated THEN "login"
                        ELSE IF ~InCompanyOf(user, d) THEN "Http404"
                        ELSE IF ~can_user_access_document(user, d) THEN "Http404"
                        ELSE "ok")
    /\ UNCHANGED docVars
    /\ UNCHANGED numVars
    /\ UNCHANGED sideVars

\* invoice_edit_view with a valid POST, behind login_required; of the fields
\* of the form the tax rate is the one kept here
EditRequest(user, d, tax_rate) ==
    /\ d.dtype = "invoice"
    /\ LET result ==
               IF ~user.is_authenticated THEN "login"
               ELSE IF ~InCompanyOf(user, d) THEN "Http404"
               ELSE IF ~can_user_edit_document(user, d) THEN "refused"
               ELSE "ok"
       IN  /\ lastOp' = PermOp("edit", user, d.id, result)
           /\ rates' = IF result = "ok"
                       THEN [rates EXCEPT ![d.id].tax_rate = tax_rate]
                       ELSE rates
    /\ UNCHANGED <<items, company, versioned_data, firstLock, now, pdf_logs, files>>
    /\ UNCHANGED numVars
    /\ UNCHANGED sideVars

\* generate_pdf_view, behind login_required. create_pdf_for_document is
\* called with request.user as document_type: it locks the document if
\* needed, then no template of that name is found, and the view answers with
\* a redirect and an error message.
PdfRequest(user, d) ==
    /\ LET result ==
               IF ~user.is_authenticated THEN "login"
               ELSE IF ~InCompanyOf(user, d) THEN "Http404"
               ELSE IF ~can_user_access_document(user, d) THEN "Http404"
               ELSE "error"
           locks == result = "error" /\ NeedsLock(versioned_data[d.id]) /\ HasItems(d)
       IN  /\ lastOp' = PermOp("pdf", user, d.id, result)
           /\ versioned_data' =
                IF locks THEN [versioned_data EXCEPT ![d.id] = Snapshot(d)]
                ELSE versioned_data
           /\ firstLock' =
                IF locks /\ firstLock[d.id] = EmptyData
                THEN [firstLock EXCEPT ![d.id] = Snapshot(d)]
                ELSE firstLock
    /\ UNCHANGED <<items, rates, company, now, pdf_logs, files>>
    /\ UNCHANGED numVars
    /\ UNCHANGED sideVars

\* The predicates of permissions.py and User.has_company_permission applied
\* to a user and a document or permission name
CheckAccess(user, d) ==
    /\ lastOp' = PermOp("can_access", user, d.id, can_user_access_document(user, d))
    /\ UNCHANGED docVars
    /\ UNCHANGED numVars
    /\ UNCHANGED sideVars

CheckEdit(user, d) ==
    /\ lastOp' = PermOp("can_edit", user, d.id, can_user_edit_document(user, d))
    /\ UNCHANGED docVars
    /\ UNCHANGED numVars
    /\ UNCHANGED sideVars

CheckDelete(user, d) ==
    /\ lastOp' = PermOp("can_delete", user, d.id, can_user_delete_document(user, d))
    /\ UNCHANGED docVars
    /\ UNCHANGED numVars
    /\ UNCHANGED sideVars

CheckPermission(user, p) ==
    /\ user.is_authenticated
    /\ lastOp' = PermOp("has_permission", user, p, has_company_permission(user, p))
    /\ UNCHANGED docVars
    /\ UNCHANGED numVars
    /\ UNCHANGED sideVars

\* The body of invoice_create_view / quote_create_view / receipt_create_view
\* on a valid POST by a user of company c: the row is numbered and saved
CreateBody(user, t, n) ==
    IF UniqueOk(docs, t, n)
    THEN /\ docs' = docs \cup {NewRow(user.company, t, n)}
         /\ nextId' = nextId + 1
         /\ issued' = issued \cup {<<t, n>>}
         /\ items' = items @@ (nextId :> <<>>)
         /\ rates' = rates @@ (nextId :> DefaultRates)
         /\ versioned_data' = versioned_data @@ (nextId :> EmptyData)
         /\ firstLock' = firstLock @@ (nextId :> EmptyData)
    ELSE /\ UNCHANGED <<docs, nextId, issued>>
         /\ UNCHANGED docCols

\* _wrapped_view of require_company_permission(permission_type) around a
\* create view: the view is called only when the three tests pass
WrappedCreate(user, permission_type, t) ==
    /\ nextId <= MaxGateDocs
    /\ LET gate == require_company_permission(user, permission_type)
       IN  IF gate = "pass"
           THEN LET n == generate_next_number(docs, user.company, t)
                IN  /\ CreateBody(user, t, n)
                    /\ lastOp' = PermOp("gated_create", user, <<permission_type, t>>,
                                        IF UniqueOk(docs, t, n) THEN "ok"
                                        ELSE "IntegrityError")
           ELSE /\ lastOp' = PermOp("gated_create", user, <<permission_type, t>>, gate)
                /\ UNCHANGED <<docs, nextId, issued>>
                /\ UNCHANGED docCols
    /\ UNCHANGED <<company, now, pdf_logs, files>>
    /\ UNCHANGED <<year, req>>
    /\ UNCHANGED sideVars

\* CompanyPermissionMixin.dispatch in front of a ListView: the list is read
\* only when the tests pass
MixinDispatch(user, required_permissions) ==
    /\ lastOp' = PermOp("gated_list", user, required_permissions,
                        LET gate == CompanyPermissionMixin_dispatch(user, required_permissions)
                        IN  IF gate = "pass" THEN "ok" ELSE gate)
    /\ UNCHANGED docVars
    /\ UNCHANGED numVars
    /\ UNCHANGED sideVars

\* A queryset filter that forgets the company
filter_by_company_All(queryset, user) == queryset

\* permissions.filter_by_company
filter_by_company(queryset, user) ==
    IF ~user.is_authenticated \/ NoCompany(user) THEN {}
    ELSE {d \in queryset : d.company = user.company}

\* filter_by_company applied to the stored documents
FilterByCompany(user) ==
    /\ lastOp' = PermOp("filter", user, 0, filter_by_company(docs, user))
    /\ UNCHANGED docVars
    /\ UNCHANGED numVars
    /\ UNCHANGED sideVars

\* The three document predicates applied to the same user and document
CheckAll(user, d) ==
    /\ lastOp' = PermOp("can_all", user, d.id,
                        <<can_user_access_document(user, d),
                          can_user_edit_document(user, d),
                          can_user_delete_document(user, d)>>)
    /\ UNCHANGED docVars
    /\ UNCHANGED numVars
    /\ UNCHANGED sideVars

\* login_required in front of a view: a request without a session is
\* redirected to the login page
LoginRedirect(user, permission_type, t) ==
    /\ ~user.is_authenticated
    /\ lastOp' = PermOp("gated_create", user, <<permission_type, t>>, "login")
    /\ UNCHANGED docVars
    /\ UNCHANGED numVars
    /\ UNCHANGED sideVars

\* A create view as views_new.py declares it: login_required, then
\* require_company_permission with a one-element list, then the view
CreateView(user, permission_type, t) ==
    \/ LoginRedirect(user, permission_type, t)
    \/ /\ user.is_authenticated
       /\ WrappedCreate(user, permission_type, t)

invoice_create_view(user) == CreateView(user, "[add_invoice]", "invoice")

quote_create_view(user) == CreateView(user, "[add_quote]", "quote")

receipt_create_view(user) == CreateView(user, "[add_receipt]", "receipt")

-----------------------------------------------------------------------------
(* The audit table *)

AuditActions == {"create", "delete"}

AuditOp(op, target, r) == [op |-> op, target |-> target, result |-> r]

\* AuditLog.objects.create(company=..., user=..., action=...), as the views
\* call it after a change
LogAction(c, u, a) ==
    /\ audit_logs.next_id <= MaxAudit
    /\ LET row == [id |-> audit_logs.next_id, company |-> c, user |-> u,
                   action |-> a, timestamp |-> now]
       IN  /\ audit_logs' = [rows |-> audit_logs.rows \cup {row},
                             next_id |-> audit_logs.next_id + 1]
           /\ lastOp' = AuditOp("log", row.id, "ok")
    /\ UNCHANGED <<converted_to_invoice, calls>>
    /\ UNCHANGED docVars
    /\ UNCHANGED numVars

\* AuditLogAdmin.has_add_permission: the add view of the admin site answers
\* 403
AdminAddAudit(c, u, a) ==
    /\ lastOp' = AuditOp("admin_add", 0, "PermissionDenied")
    /\ UNCHANGED sideVars
    /\ UNCHANGED docVars
    /\ UNCHANGED numVars

\* AuditLogAdmin.has_change_permission: a POST to the change view of the
\* admin site answers 403
AdminChangeAudit(row, a) ==
    /\ lastOp' = AuditOp("admin_change", row.id, "PermissionDenied")
    /\ UNCHANGED sideVars
    /\ UNCHANGED docVars
    /\ UNCHANGED numVars

\* AuditLogAdmin does not define has_delete_permission: ModelAdmin's own
\* asks for the delete_auditlog permission, which a superuser has; the
\* delete view and the "delete selected" action then delete the row
AdminDeleteAudit(row, has_perm) ==
    /\ IF has_perm
       THEN /\ audit_logs' = [audit_logs EXCEPT !.rows = @ \ {row}]
            /\ lastOp' = AuditOp("admin_delete", row.id, "ok")
       ELSE /\ lastOp' = AuditOp("admin_delete", row.id, "PermissionDenied")
            /\ UNCHANGED audit_logs
    /\ UNCHANGED <<converted_to_invoice, calls>>
    /\ UNCHANGED docVars
    /\ UNCHANGED numVars

-----------------------------------------------------------------------------
(* Converting a quote *)

ConvOp(op, p, target, r) == [op |-> op, proc |-> p, target |-> target, result |-> r]

\* A caller fetches the quote: the instance it then works on carries the
\* converted_to_invoice the row had at that moment
ConvertLoad(p, q) ==
    /\ calls[p].pc = "idle"
    /\ q.dtype = "quote"
    /\ calls' = [calls EXCEPT ![p] =
                    [pc |-> "loaded", arg |-> q.id,
                     seen |-> converted_to_invoice[q.id], result |-> "none"]]
    /\ lastOp' = ConvOp("load", p, q.id, None)
    /\ UNCHANGED <<audit_logs, converted_to_invoice>>
    /\ UNCHANGED docVars
    /\ UNCHANGED numVars

\* Quote.convert_to_invoice on the fetched instance: the stored link is
\* returned if the instance has one; otherwise an invoice is created through
\* Invoice.save, the quote's line items are copied, and the link is stored
ConvertToInvoice(p) ==
    /\ calls[p].pc = "loaded"
    /\ LET q == CHOOSE d \in docs : d.id = calls[p].arg
           n == SaveNumber(docs, q.company, "invoice", year)
           invoice == [id |-> nextId, dtype |-> "invoice", company |-> q.company,
                       number |-> n.number, created_year |-> year,
                       from_quote |-> q.id]
       IN  IF calls[p].seen # None
           THEN /\ lastOp' = ConvOp("convert", p, q.id, calls[p].seen)
                /\ UNCHANGED <<docs, nextId, issued, converted_to_invoice>>
                /\ UNCHANGED docCols
           ELSE /\ nextId <= MaxDocs
                /\ IF ~n.err /\ UniqueOk(docs, "invoice", n.number)
                   THEN /\ docs' = docs \cup {invoice}
                        /\ nextId' = nextId + 1
                        /\ issued' = issued \cup {<<"invoice", n.number>>}
                        /\ items' = items @@ (nextId :> items[q.id])
                        /\ rates' = rates @@ (nextId :> rates[q.id])
                        /\ versioned_data' = versioned_data @@ (nextId :> EmptyData)
                        /\ firstLock' = firstLock @@ (nextId :> EmptyData)
                        /\ converted_to_invoice' =
                             [converted_to_invoice EXCEPT ![q.id] = <<nextId>>]
                        /\ lastOp' = ConvOp("convert", p, q.id, <<nextId>>)
                   ELSE /\ lastOp' = ConvOp("convert", p, q.id,
                                            IF n.err THEN "ValueError"
                                            ELSE "IntegrityError")
                        /\ UNCHANGED <<docs, nextId, issued, converted_to_invoice>>
                        /\ UNCHANGED docCols
    /\ calls' = [calls EXCEPT ![p] = IdleCall]
    /\ UNCHANGED <<year, req, audit_logs>>
    /\ UNCHANGED <<company, now, pdf_logs, files>>

-----------------------------------------------------------------------------
(* A download in steps *)

StepOp(op, p, token, r, content) ==
    [op |-> op, proc |-> p, token |-> token, result |-> r, content |-> content]

\* serve_pdf_download up to the save of downloaded_at: the row is fetched,
\* the expiry and the file are tested, and downloaded_at is written if it
\* was empty; the file is not open yet
DownloadBegin(p, token) ==
    /\ calls[p].pc = "idle"
    /\ IF CanServe(token)
       THEN LET pdf_log == CHOOSE l \in LogsOfToken(token) : TRUE
            IN  /\ pdf_logs' = (pdf_logs \ {pdf_log}) \cup {MarkDownloaded(pdf_log)}
                /\ calls' = [calls EXCEPT ![p] =
                                [pc |-> "marked", arg |-> token,
                                 seen |-> pdf_log.file_path,
                                 result |-> IF pdf_log.downloaded_at = None
                                            THEN "wrote" ELSE "kept"]]
                /\ lastOp' = StepOp("download_begin", p, token, "pending", None)
       ELSE /\ lastOp' = StepOp("download", p, token, "Http404", None)
            /\ UNCHANGED <<pdf_logs, calls>>
    /\ UNCHANGED <<items, rates, company, versioned_data, firstLock, now, files>>
    /\ UNCHANGED <<audit_logs, converted_to_invoice>>
    /\ UNCHANGED numVars

\* serve_pdf_download from open(pdf_log.file_path) on: the content is
\* returned, or the error of open() is turned into Http404
DownloadRead(p) ==
    /\ calls[p].pc = "marked"
    /\ lastOp' = IF calls[p].seen \in DOMAIN files
                 THEN StepOp("download", p, calls[p].arg, "ok", files[calls[p].seen])
                 ELSE StepOp("download", p, calls[p].arg, "Http404", None)
    /\ calls' = [calls EXCEPT ![p] = IdleCall]
    /\ UNCHANGED docVars
    /\ UNCHANGED <<audit_logs, converted_to_invoice>>
    /\ UNCHANGED numVars

-----------------------------------------------------------------------------
(* Specifications *)

\* A company that has issued every four-digit number of this year
\* and has kept only the latest row, or an empty database.
SeedDocs ==
    {{},
     {[id |-> 1, dtype |-> "invoice", company |-> "A",
       created_year |-> FirstYear,
       number |-> YearPrefix("A", "invoice", FirstYear) \o <<"9", "9", "9", "9">>]}}

\* New rows: no line item, default rates, versioned_data = {}; every company
\* with its default branding; no PDF generated yet
InitDocVars ==
    /\ items = [i \in {d.id : d \in docs} |-> <<>>]
    /\ rates = [i \in {d.id : d \in docs} |-> DefaultRates]
    /\ versioned_data = [i \in {d.id : d \in docs} |-> EmptyData]
    /\ firstLock = [i \in {d.id : d \in docs} |-> EmptyData]
    /\ company = [c \in Companies |-> DefaultBranding]
    /\ now = 0
    /\ pdf_logs = {}
    /\ files = NoFiles
    /\ InitSide

InitNum ==
    /\ docs \in SeedDocs
    /\ nextId = Cardinality(docs) + 1
    /\ year = FirstYear
    /\ issued = {<<d.dtype, d.number>> : d \in docs}
    /\ lastOp = Op("init", "A", "invoice", None, "ok")
    /\ req = [p \in Procs |-> Idle]
    /\ InitDocVars

NextNum ==
    \/ \E c \in Companies, t \in DocTypes : SaveNew(c, t)
    \/ \E c \in Companies, t \in DocTypes : ViewCreate(c, t)
    \/ \E d \in docs : AdminDelete(d)
    \/ NewYear

SpecNum == InitNum /\ [][NextNum]_vars

Spec == SpecNum

\* Creations through save() alone, one after the other
NextSeq ==
    \/ \E c \in Companies, t \in DocTypes : SaveNew(c, t)
    \/ NewYear

SpecSeq == InitNum /\ [][NextSeq]_vars

-----------------------------------------------------------------------------
(* save() as two steps: the aggregate query, then the INSERT. Nothing in   *)
(* save() or its callers wraps the two in a transaction or a lock.         *)

\* save(), first half: read the year and the greatest number, set self.number
ReadMax(p, c, t) ==
    /\ req[p].pc = "idle"
    /\ nextId <= MaxRaceDocs
    /\ LET prefix == YearPrefix(c, t, year)
           last_number ==
               AggregateMax({d.number : d \in FilterStartsWith(docs, c, t, prefix)})
           n == SaveNumber(docs, c, t, year)
       IN  req' = [req EXCEPT ![p] =
                [pc |-> IF n.err THEN "failed" ELSE "computed",
                 company |-> c, dtype |-> t, last_number |-> last_number,
                 number |-> n.number, year |-> year,
                 result |-> IF n.err THEN "ValueError" ELSE "none"]]
    /\ lastOp' = Op("read", c, t, None, "ok")
    /\ UNCHANGED <<docs, nextId, year, issued>>
    /\ UNCHANGED docVars
    /\ UNCHANGED sideVars

\* save(), second half: super().save() inserts, or raises IntegrityError, which
\* neither save() nor the caller catches: the request ends there
InsertRow(p) ==
    /\ req[p].pc = "computed"
    /\ Insert("save", req[p].company, req[p].dtype, req[p].number)
    /\ req' = [req EXCEPT ![p].pc = IF lastOp'.result = "ok" THEN "done" ELSE "failed",
                          ![p].result = lastOp'.result]
    /\ UNCHANGED year

\* The worker is free for the next request
Finish(p) ==
    /\ req[p].pc \in {"done", "failed"}
    /\ req' = [req EXCEPT ![p] = Idle]
    /\ lastOp' = Op("finish", "A", "invoice", None, "ok")
    /\ UNCHANGED <<docs, nextId, year, issued>>
    /\ UNCHANGED docVars
    /\ UNCHANGED sideVars

NextRace ==
    \/ \E p \in Procs, c \in Companies, t \in DocTypes : ReadMax(p, c, t)
    \/ \E p \in Procs : InsertRow(p)
    \/ \E p \in Procs : Finish(p)
    \/ NewYear

SpecRace == InitNum /\ [][NextRace]_vars

-----------------------------------------------------------------------------
(* One stored document of company A, as save() numbers it, and the         *)
(* operations on it                                                        *)

InitRates == {r \in RateChoices : r.discount_rate = DefaultRates.discount_rate}

InitDoc ==
    /\ \E t \in DocTypes :
          docs = {[id |-> 1, dtype |-> t, company |-> "A",
                   created_year |-> FirstYear,
                   number |-> SaveNumber({}, "A", t, FirstYear).number]}
    /\ nextId = 2
    /\ year = FirstYear
    /\ issued = {<<d.dtype, d.number>> : d \in docs}
    /\ lastOp = DocOp("init", 0, "ok", None, None)
    /\ req = [p \in Procs |-> Idle]
    /\ items = [i \in {1} |-> <<>>]
    /\ rates \in [{1} -> InitRates]
    /\ versioned_data = [i \in {1} |-> EmptyData]
    /\ firstLock = [i \in {1} |-> EmptyData]
    /\ company = [c \in Companies |-> DefaultBranding]
    /\ now = 0
    /\ pdf_logs = {}
    /\ files = NoFiles
    /\ InitSide

\* Line items and rates change; totals are read
NextTotals ==
    \/ \E d \in docs, k \in ItemKinds : AddItem(d, k)
    \/ \E d \in docs, i \in 1..MaxItems, k \in ItemKinds : EditItem(d, i, k)
    \/ \E d \in docs, i \in 1..MaxItems : DeleteItem(d, i)
    \/ \E d \in docs, r \in RateChoices : SetRates(d, r)

SpecTotals == InitDoc /\ [][NextTotals]_vars

\* Line items and branding change
NextEdit ==
    \/ \E d \in docs, k \in SnapshotKinds :
          Len(items[d.id]) < MaxSnapshotItems /\ AddItem(d, k)
    \/ \E d \in docs, i \in 1..MaxItems, k \in SnapshotKinds : EditItem(d, i, k)
    \/ \E d \in docs, i \in 1..MaxItems : DeleteItem(d, i)
    \/ \E d \in docs, b \in Brandings : ChangeBranding(d.company, b)

\* Line items and branding change, PDFs are generated
NextDoc ==
    \/ NextEdit
    \/ \E d \in docs, fault \in {"none", "render"} : CreatePdf(d, d.dtype, fault)

SpecDoc == InitDoc /\ [][NextDoc]_vars

\* Line items and branding change, time passes, lock_version_data is called
NextLock ==
    \/ NextEdit
    \/ Tick
    \/ \E d \in docs : LockVersionData(d)

SpecLock == InitDoc /\ [][NextLock]_vars

\* One stored invoice; PDFs are generated, downloaded and cleaned up
InitPdf ==
    /\ InitDoc
    /\ \A d \in docs : d.dtype = "invoice"
    /\ \A i \in DOMAIN rates : rates[i] = DefaultRates

Tokens == 1..(MaxPdfs + 1)

\* PDFs are generated and downloaded, files get lost, links expire
NextDownload ==
    \/ \E d \in docs, fault \in {"none", "write"} : CreatePdf(d, d.dtype, fault)
    \/ Tick
    \/ \E token \in Tokens : ServeDownload(token)
    \/ \E path \in DOMAIN files : FileLost(path)

SpecDownload == InitPdf /\ [][NextDownload]_vars

\* PDFs are generated and age, the cleanup runs
NextCleanup ==
    \/ \E d \in docs, fault \in {"none", "write"} : CreatePdf(d, d.dtype, fault)
    \/ Tick
    \/ \E days \in 0..MaxDays, failed \in SUBSET pdf_logs :
          CleanupExpiredPdfs(days, failed)
    \/ \E days \in 0..MaxDays, dry_run \in BOOLEAN, failed \in SUBSET pdf_logs :
          CleanupCommand(days, dry_run, failed)

SpecCleanup == InitPdf /\ [][NextCleanup]_vars

\* One document of company A in any status, created by user u1
InitPerm ==
    /\ \E t \in DocTypes, s \in Statuses :
          docs = {[id |-> 1, dtype |-> t, company |-> "A",
                   created_year |-> FirstYear,
                   number |-> SaveNumber({}, "A", t, FirstYear).number,
                   status |-> s, created_by |-> "u1"]}
    /\ nextId = 2
    /\ year = FirstYear
    /\ issued = {<<d.dtype, d.number>> : d \in docs}
    /\ lastOp = PermOp("init", Anonymous, 0, "ok")
    /\ req = [p \in Procs |-> Idle]
    /\ items = [i \in {1} |-> <<>>]
    /\ rates = [i \in {1} |-> DefaultRates]
    /\ versioned_data = [i \in {1} |-> EmptyData]
    /\ firstLock = [i \in {1} |-> EmptyData]
    /\ company = [c \in Companies |-> DefaultBranding]
    /\ now = 0
    /\ pdf_logs = {}
    /\ files = NoFiles
    /\ InitSide

TaxRates == {r.tax_rate : r \in RateChoices}

\* Document requests and document predicates by every user
NextPerm ==
    \/ \E u \in Users, d \in docs : DetailRequest(u, d)
    \/ \E u \in Users, d \in docs, r \in TaxRates : EditRequest(u, d, r)
    \/ \E u \in Users, d \in docs : PdfRequest(u, d)
    \/ \E u \in Users, d \in docs : CheckAccess(u, d)
    \/ \E u \in Users, d \in docs : CheckEdit(u, d)
    \/ \E u \in Users, d \in docs : CheckDelete(u, d)

SpecPerm == InitPerm /\ [][NextPerm]_vars

\* The predicates alone
NextCheck ==
    \/ \E u \in Users, d \in docs : CheckAccess(u, d)
    \/ \E u \in Users, d \in docs : CheckEdit(u, d)
    \/ \E u \in Users, d \in docs : CheckDelete(u, d)
    \/ \E u \in Users, p \in Permissions : CheckPermission(u, p)

SpecCheck == InitPerm /\ [][NextCheck]_vars

\* the lists of required_permissions of the list views, and the empty
\* default of the mixin
RequiredLists ==
    {<<>>, <<"view_invoice">>, <<"view_reports">>, <<"create_quote", "create_invoice">>}

\* the argument of the decorator: the list the create views pass, and two
\* single names
GatePermissions == {"[add_invoice]", "create_invoice", "create_quote"}

\* Gated create and list requests by every user
NextGate ==
    \/ \E u \in Users, p \in GatePermissions, t \in DocTypes : WrappedCreate(u, p, t)
    \/ \E u \in Users, l \in RequiredLists : MixinDispatch(u, l)

SpecGate == InitNum /\ [][NextGate]_vars

\* No documents; audit rows written by the views and the admin site working
\* on them
InitAudit ==
    /\ InitNum
    /\ docs = {}

NextAudit ==
    \/ \E c \in Companies, u \in UserNames, a \in AuditActions : LogAction(c, u, a)
    \/ \E c \in Companies, u \in UserNames, a \in AuditActions : AdminAddAudit(c, u, a)
    \/ \E row \in audit_logs.rows, a \in AuditActions : AdminChangeAudit(row, a)
    \/ \E row \in audit_logs.rows, p \in BOOLEAN : AdminDeleteAudit(row, p)

SpecAudit == InitAudit /\ [][NextAudit]_vars

\* An invoice of company A in any status and a draft quote of company B
InitTenant ==
    /\ \E s \in Statuses :
          docs = {[id |-> 1, dtype |-> "invoice", company |-> "A",
                   created_year |-> FirstYear,
                   number |-> SaveNumber({}, "A", "invoice", FirstYear).number,
                   status |-> s, created_by |-> "u1"],
                  [id |-> 2, dtype |-> "quote", company |-> "B",
                   created_year |-> FirstYear,
                   number |-> SaveNumber({}, "B", "quote", FirstYear).number,
                   status |-> "draft", created_by |-> "u2"]}
    /\ nextId = 3
    /\ year = FirstYear
    /\ issued = {<<d.dtype, d.number>> : d \in docs}
    /\ lastOp = PermOp("init", Anonymous, 0, "ok")
    /\ req = [p \in Procs |-> Idle]
    /\ items = [i \in {1, 2} |-> <<>>]
    /\ rates = [i \in {1, 2} |-> DefaultRates]
    /\ versioned_data = [i \in {1, 2} |-> EmptyData]
    /\ firstLock = [i \in {1, 2} |-> EmptyData]
    /\ company = [c \in Companies |-> DefaultBranding]
    /\ now = 0
    /\ pdf_logs = {}
    /\ files = NoFiles
    /\ InitSide

\* The document predicates and the company filter by every user
NextTenant ==
    \/ \E u \in Users, d \in docs : CheckAccess(u, d)
    \/ \E u \in Users, d \in docs : CheckEdit(u, d)
    \/ \E u \in Users, d \in docs : CheckDelete(u, d)
    \/ \E u \in Users, d \in docs : CheckAll(u, d)
    \/ \E u \in Users : FilterByCompany(u)

SpecTenant == InitTenant /\ [][NextTenant]_vars

\* The three create views by every user
NextViews ==
    \/ \E u \in Users : invoice_create_view(u)
    \/ \E u \in Users : quote_create_view(u)
    \/ \E u \in Users : receipt_create_view(u)

SpecViews == InitNum /\ [][NextViews]_vars

\* the line items a quote may start with
QuoteItems ==
    {<<k>> : k \in ItemKinds} \cup {<<k, l>> : k \in ItemKinds, l \in ItemKinds}

\* One quote of company A with one or two line items, not converted
InitConvert ==
    /\ docs = {[id |-> 1, dtype |-> "quote", company |-> "A",
                created_year |-> FirstYear,
                number |-> SaveNumber({}, "A", "quote", FirstYear).number]}
    /\ nextId = 2
    /\ year = FirstYear
    /\ issued = {<<d.dtype, d.number>> : d \in docs}
    /\ lastOp = ConvOp("init", "p1", 0, None)
    /\ req = [p \in Procs |-> Idle]
    /\ items \in [{1} -> QuoteItems]
    /\ rates \in [{1} -> InitRates]
    /\ versioned_data = [i \in {1} |-> EmptyData]
    /\ firstLock = [i \in {1} |-> EmptyData]
    /\ company = [c \in Companies |-> DefaultBranding]
    /\ now = 0
    /\ pdf_logs = {}
    /\ files = NoFiles
    /\ audit_logs = [rows |-> {}, next_id |-> 1]
    /\ converted_to_invoice = [i \in {1} |-> None]
    /\ calls = [p \in Procs |-> IdleCall]

\* Two callers converting the quote, one after the other or interleaved
NextConvert ==
    \/ \E p \in Procs, q \in docs : ConvertLoad(p, q)
    \/ \E p \in Procs : ConvertToInvoice(p)

SpecConvert == InitConvert /\ [][NextConvert]_vars

\* the caller whose download is followed step by step
Downloaders == {"p1"}

\* PDFs generated, time passing, a download in two steps and cleanups in
\* between
NextServe ==
    \/ \E d \in docs : CreatePdf(d, d.dtype, "none")
    \/ Tick
    \/ \E p \in Downloaders, token \in Tokens : DownloadBegin(p, token)
    \/ \E p \in Downloaders : DownloadRead(p)
    \/ \E days \in 0..MaxDays, failed \in SUBSET pdf_logs :
          CleanupExpiredPdfs(days, failed)

SpecServe == InitPdf /\ [][NextServe]_vars

-----------------------------------------------------------------------------
(* Numbering: the claims *)

\* The sequence part of a stored number
SeqOf(n) == ParseInt(SplitLast(n)).val

SameSeries(d, e) ==
    /\ d.dtype = e.dtype
    /\ d.company = e.company
    /\ d.created_year = e.created_year

\* C1: documents created one after the other through save() for one company,
\* type and calendar year carry pairwise distinct numbers, and a later one
\* has a strictly greater sequence part than every earlier one.
C1_DistinctIncreasing ==
    \A d \in docs, e \in docs :
        (SameSeries(d, e) /\ d.id < e.id) =>
            (d.number # e.number /\ SeqOf(d.number) < SeqOf(e.number))

\* Three creations of one series have happened, the last one just now.
C1_Witness ==
    /\ lastOp.op = "save"
    /\ lastOp.result = "ok"
    /\ \E d \in docs, e \in docs, f \in docs :
        /\ SameSeries(d, e) /\ SameSeries(e, f)
        /\ d.id < e.id /\ e.id < f.id
        /\ f.number = lastOp.number

SetMax(S) == CHOOSE x \in S : \A y \in S : y <= x

\* The number C2 describes: one more than the largest sequence VALUE
LargestPlusOne(D, c, t, y) ==
    LET seqs == {SeqOf(d.number) : d \in FilterStartsWith(D, c, t, YearPrefix(c, t, y))}
    IN  YearPrefix(c, t, y) \o
            ZeroPad(Str(IF seqs = {} THEN 1 ELSE SetMax(seqs) + 1), PadWidth)

\* C2: a save() with an empty number assigns the current-year prefix followed
\* by 1 + the largest sequence value among the company's documents of that
\* type with that prefix, zero-padded to 4 digits (0001 when there is none).
C2_LargestPlusOne ==
    [][lastOp'.op = "save" =>
        lastOp'.number = LargestPlusOne(docs, lastOp'.company, lastOp'.dtype, year)]_vars

\* {prefix}-{year}-{seq:04d}
WellFormed(n, c, t, y) ==
    /\ StartsWith(n, YearPrefix(c, t, y))
    /\ LET tail == SubSeq(n, Len(YearPrefix(c, t, y)) + 1, Len(n))
       IN  /\ AllDigits(tail)
           /\ Len(tail) >= PadWidth
           /\ tail = ZeroPad(Str(DigitsVal(tail)), PadWidth)

\* C3: every number assigned, by save() or by a creation view through
\* generate_next_number, has the form {prefix}-{year}-{seq:04d}.
C3_Format ==
    (lastOp.op \in {"save", "view_create"} /\ lastOp.number # None) =>
        WellFormed(lastOp.number, lastOp.company, lastOp.dtype, year)

\* C4: a number once carried by a stored document, deleted since or not, is
\* never assigned to a document created later.
C4_NeverReused ==
    [][\A d \in docs' \ docs : <<d.dtype, d.number>> \notin issued]_vars

\* C5: when save() calls interleave, stored numbers stay pairwise distinct;
\* two calls of one company and type that read the same maximum (in the same
\* year) computed the same number; and an INSERT of a number that is already
\* stored stores nothing and ends the request with IntegrityError, while any
\* other INSERT stores exactly the one new row. A failed request is not retried.
C5_StoredDistinct ==
    \A d \in docs, e \in docs :
        (d.dtype = e.dtype /\ d.number = e.number) => d = e

C5_SameRead ==
    \A p \in Procs, q \in Procs :
        ( /\ req[p].pc \in {"computed", "done"}
          /\ req[q].pc \in {"computed", "done", "failed"}
          /\ req[q].result # "ValueError"
          /\ req[p].company = req[q].company
          /\ req[p].dtype = req[q].dtype
          /\ req[p].year = req[q].year
          /\ req[p].last_number = req[q].last_number )
        => req[p].number = req[q].number

C5_InsertStep(p) ==
    (req[p].pc = "computed" /\ req'[p].pc # "computed") =>
        IF \E d \in docs : d.dtype = req[p].dtype /\ d.number = req[p].number
        THEN /\ docs' = docs
             /\ req'[p].pc = "failed"
             /\ req'[p].result = "IntegrityError"
        ELSE /\ req'[p].pc = "done"
             /\ \E d \in docs' :
                    /\ docs' = docs \cup {d}
                    /\ d \notin docs
                    /\ d.number = req[p].number
                    /\ d.company = req[p].company
                    /\ d.dtype = req[p].dtype

C5_NoRetry(p) ==
    req[p].pc = "failed" => req'[p] \in {req[p], Idle}

C5_Race ==
    /\ [](C5_StoredDistinct /\ C5_SameRead)
    /\ [][\A p \in Procs : C5_InsertStep(p) /\ C5_NoRetry(p)]_vars

\* Both calls read the same maximum; one is stored, the other was rejected.
C5_Witness ==
    \E p \in Procs, q \in Procs :
        /\ req[p].pc = "done"
        /\ req[q].pc = "failed"
        /\ req[q].result = "IntegrityError"
        /\ req[p].last_number = req[q].last_number
        /\ req[p].number = req[q].number
        /\ Cardinality({d \in docs : d.number = req[p].number}) = 1

\* The rows of one company
OfCompany(D, c) == {d \in D : d.company = c}

\* What save() of a new document does on database D: the number and whether
\* the INSERT is accepted
SaveOutcome(D, c, t, y) ==
    LET n == SaveNumber(D, c, t, y)
    IN  [number |-> n.number,
         result |-> IF n.err THEN "ValueError"
                    ELSE IF UniqueOk(D, t, n.number) THEN "ok"
                    ELSE "IntegrityError"]

\* C6: what a creation in a company does (the number it gets, and whether it
\* succeeds) is what it would do were the other companies' documents absent.
C6_CompanyScoped ==
    [][lastOp'.op = "save" =>
        [number |-> lastOp'.number, result |-> lastOp'.result]
            = SaveOutcome(OfCompany(docs, lastOp'.company),
                          lastOp'.company, lastOp'.dtype, year)]_vars

-----------------------------------------------------------------------------
(* Totals: the claims *)

\* x as an integer number of 10^-k units (x has at most k decimal places)
At(x, k) == x.c * Pow10(k - x.e)

RECURSIVE IntSum(_)
IntSum(s) == IF s = <<>> THEN 0 ELSE Head(s) + IntSum(Tail(s))

\* total = subtotal + tax_total - discount_total, in millionths
TotalIdentity(d) ==
    /\ total(d).err = "none"
    /\ At(total(d).val, 6) =
         At(subtotal(d).val, 6) + At(tax_total(d).val, 6)
             - At(discount_total(d).val, 6)

\* C7: for every document, whatever line items were added, removed or edited
\* and whatever tax_rate and discount_rate were set, the total read from the
\* document equals its subtotal plus its tax_total minus its discount_total.
C7_TotalIdentity == \A d \in docs : TotalIdentity(d)

\* The identity on the documents that have line items: invoices and quotes
TotalIdentityWithItems == \A d \in docs : HasItems(d) => TotalIdentity(d)

\* line_total = quantity * unit_price * (1 - discount/100), in millionths
LineTotalFormula(item) ==
    At(line_total(item), 6) =
        item.quantity * At(item.unit_price, 2) * (10000 - At(item.discount, 2))

\* subtotal, tax_total and discount_total of a document as the claim gives them
DocumentFormulas(d) ==
    /\ subtotal(d).err = "none"
    /\ tax_total(d).err = "none"
    /\ discount_total(d).err = "none"
    /\ \A i \in 1..Len(items[d.id]) : LineTotalFormula(items[d.id][i])
    /\ At(subtotal(d).val, 6) =
         IntSum([i \in 1..Len(items[d.id]) |-> At(line_total(items[d.id][i]), 6)])
    /\ At(tax_total(d).val, 6) = At(subtotal(d).val, 2) * At(rates[d.id].tax_rate, 2)
    /\ At(discount_total(d).val, 6) =
         At(subtotal(d).val, 2) * At(rates[d.id].discount_rate, 2)

\* one item: quantity 2, unit price 100, discount 10%; tax 8.25, discount 0
IsExample(d) ==
    /\ items[d.id] =
         <<[quantity |-> 2, unit_price |-> Dec(100, 0), discount |-> Dec(10, 0)]>>
    /\ rates[d.id] = [tax_rate |-> Dec(825, 2), discount_rate |-> Dec(0, 0)]

ExampleValues(d) ==
    /\ subtotal(d) = Value(Dec(18000, 2))
    /\ tax_total(d) = Value(Dec(1485, 2))
    /\ total(d) = Value(Dec(19485, 2))

\* C8: every line item's line_total is quantity * unit_price * (1 - discount/100);
\* every document's subtotal is the sum of its line totals, its tax_total is
\* subtotal * tax_rate / 100 and its discount_total is subtotal * discount_rate / 100;
\* the example document has subtotal 180.00, tax_total 14.85 and total 194.85.
C8_Formulas ==
    \A d \in docs : DocumentFormulas(d) /\ (IsExample(d) => ExampleValues(d))

\* The formulas and the example on invoices and quotes
FormulasWithItems ==
    \A d \in docs :
        HasItems(d) => DocumentFormulas(d) /\ (IsExample(d) => ExampleValues(d))

\* The example document is reached, as an invoice or a quote
ExampleReached == \E d \in docs : HasItems(d) /\ IsExample(d)

-----------------------------------------------------------------------------
(* Version snapshots: the claims *)

\* C9: once versioned_data of a document is locked, no line-item addition,
\* edit or deletion, no branding change and no create_pdf_for_document
\* changes it, and every PDF generation from then on hands the renderer the
\* snapshot of the first lock.
C9_SnapshotImmutable ==
    [][\A i \in DOMAIN versioned_data :
          versioned_data[i] # EmptyData =>
              /\ versioned_data'[i] = versioned_data[i]
              /\ versioned_data[i] = firstLock[i]
              /\ (lastOp'.op = "create_pdf" /\ lastOp'.doc = i)
                     => lastOp'.context = firstLock[i]]_vars

\* C9 witness: a locked document whose line items and company branding have
\* since changed and for which a second PDF has just been generated.
C9_Witness ==
    \E d \in docs :
        /\ versioned_data[d.id] # EmptyData
        /\ versioned_data[d.id].items # Snapshot(d).items
        /\ versioned_data[d.id].company # company[d.company]
        /\ lastOp.op = "create_pdf" /\ lastOp.doc = d.id /\ lastOp.result = "ok"
        /\ Cardinality({l \in pdf_logs : l.document_id = d.id}) >= 2

\* C10: lock_version_data called on a document whose versioned_data is
\* already locked leaves versioned_data as it was, whatever happened to the
\* line items, the company or the clock since the first lock.
C10_LockOnce ==
    [][\A i \in DOMAIN versioned_data :
          (versioned_data[i] # EmptyData /\ lastOp'.op = "lock" /\ lastOp'.doc = i)
              => versioned_data'[i] = versioned_data[i]]_vars

-----------------------------------------------------------------------------
(* PDF generation and download: the claims *)

\* the PDFLog rows of one document whose file is on disk
StoredPdfs(i) ==
    {l \in pdf_logs : l.document_id = i /\ l.file_path \in DOMAIN files}

\* C11: what create_pdf_for_document hands the renderer for a locked document
\* (template data and themed CSS) depends on the frozen snapshot only: two
\* PDFs generated for the same document from the same snapshot come from
\* identical rendering inputs, whatever the company's colors and font were
\* changed to in between.
C11_RenderFromSnapshot ==
    \A d \in docs : \A l1, l2 \in StoredPdfs(d.id) :
        files[l1.file_path].versioned_data = files[l2.file_path].versioned_data
            => files[l1.file_path] = files[l2.file_path]

\* the conditions under which the claim says a download is refused
MustRefuse(token) ==
    \/ ~\E l \in pdf_logs : l.download_token = token
    \/ \E l \in pdf_logs :
          /\ l.download_token = token
          /\ \/ now > l.expires_at
             \/ l.file_path = None
             \/ l.file_path \notin DOMAIN files

\* C12: serve_pdf_download answers not-found and serves no content when the
\* token matches no PDFLog, when the time is past the row's expires_at, or
\* when the row has no file_path or its file is not on disk; otherwise it
\* serves the content of the row's file.
C12_DownloadRefusals ==
    [][lastOp'.op = "download" =>
          IF MustRefuse(lastOp'.arg)
          THEN lastOp'.result = "Http404" /\ lastOp'.content = None
          ELSE /\ lastOp'.result = "ok"
               /\ \E l \in pdf_logs :
                     /\ l.download_token = lastOp'.arg
                     /\ lastOp'.content = files[l.file_path]]_vars

\* C12 witness: a download has just been refused for a row that is expired
\* while its file is still on disk.
C12_Witness ==
    /\ lastOp.op = "download"
    /\ lastOp.result = "Http404"
    /\ \E l \in pdf_logs :
          /\ l.download_token = lastOp.arg
          /\ now > l.expires_at
          /\ l.file_path # None
          /\ l.file_path \in DOMAIN files

\* the row of a token, with its downloaded_at set aside
SameButStamp(l1, l2) ==
    [l1 EXCEPT !.downloaded_at = None] = [l2 EXCEPT !.downloaded_at = None]

C14_SingleUse ==
    [][(/\ lastOp'.op = "download"
        /\ \E l \in pdf_logs :
              l.download_token = lastOp'.arg /\ l.downloaded_at # None)
          => lastOp'.result # "ok"]_vars

\* older than the cutoff of a cleanup with this days argument
OlderThan(l, days) == l.created_at + days < now

\* C15: after a cleanup that met no filesystem error, every row older than
\* days is marked deleted, has no file_path and no file on disk; every other
\* row is unchanged and keeps its file; the count returned is the number of
\* rows newly marked deleted.
C15_Cleanup ==
    [][(lastOp'.op = "cleanup" /\ ~lastOp'.arg[2]) =>
          LET days == lastOp'.arg[1]
          IN  /\ \A l \in pdf_logs :
                    IF OlderThan(l, days)
                    THEN /\ [l EXCEPT !.deleted = TRUE, !.file_path = None] \in pdf_logs'
                         /\ l.file_path \notin DOMAIN files'
                    ELSE /\ l \in pdf_logs'
                         /\ l.file_path \in DOMAIN files =>
                               /\ l.file_path \in DOMAIN files'
                               /\ files'[l.file_path] = files[l.file_path]
              /\ Cardinality(pdf_logs') = Cardinality(pdf_logs)
              /\ lastOp'.result =
                    Cardinality({l \in pdf_logs' : l.deleted})
                        - Cardinality({l \in pdf_logs : l.deleted})]_vars

\* C15 witness: a cleanup without error has just marked a row deleted and
\* left a younger row with its file on disk.
C15_Witness ==
    /\ lastOp.op = "cleanup"
    /\ ~lastOp.arg[2]
    /\ lastOp.result >= 1
    /\ \E l \in pdf_logs : l.deleted /\ l.file_path = None
    /\ \E l \in pdf_logs :
          ~l.deleted /\ l.file_path # None /\ l.file_path \in DOMAIN files

-----------------------------------------------------------------------------
(* Roles and permissions: the claims *)

\* the document a permission check or a document request was about
DocOf(op) == CHOOSE d \in docs : d.id = op.target

\* what a request may change of a document and its records
Records ==
    <<docs, nextId, issued, items, rates, versioned_data, firstLock, company,
      pdf_logs, files>>

\* C16: on a document with status sent, paid or partially_paid,
\* can_user_edit_document is false for the roles user and accountant and the
\* invoice edit view refuses them; an owner of the document's company may
\* edit a sent document whoever created it; an edit request that is not
\* accepted leaves every record unchanged.
C16_EditByStatus ==
    [][lastOp'.op \in {"can_edit", "edit"} =>
         LET u == lastOp'.user
             d == DocOf(lastOp')
             r == lastOp'.result
         IN  /\ (d.status \in {"sent", "paid", "partially_paid"}
                   /\ u.role \in {"user", "accountant"})
                  => IF lastOp'.op = "can_edit" THEN r = FALSE ELSE r # "ok"
             /\ (d.status = "sent" /\ u.role = "owner" /\ u.company = d.company)
                  => IF lastOp'.op = "can_edit" THEN r = TRUE ELSE r = "ok"
             /\ (lastOp'.op = "edit" /\ r # "ok") => UNCHANGED Records]_vars

\* C16 witness: a user's edit of a sent invoice that somebody else created
\* has been refused
C16_Witness ==
    /\ lastOp.op = "edit"
    /\ lastOp.result = "refused"
    /\ lastOp.user.role = "user"
    /\ DocOf(lastOp).status = "sent"
    /\ DocOf(lastOp).created_by # lastOp.user.name

\* C17: can_user_delete_document is false for every role on a paid or
\* partially_paid document; on any other status it is true exactly for the
\* owners and admins of the document's company.
C17_DeleteByStatus ==
    lastOp.op = "can_delete" =>
        LET u == lastOp.user
            d == DocOf(lastOp)
        IN  lastOp.result =
              IF d.status \in {"paid", "partially_paid"} THEN FALSE
              ELSE u.role \in {"owner", "admin"} /\ u.company = d.company

\* C17 witness: an owner of the document's company has been refused the
\* deletion of a paid document
C17_Witness ==
    /\ lastOp.op = "can_delete"
    /\ lastOp.user.role = "owner"
    /\ lastOp.user.company = DocOf(lastOp).company
    /\ DocOf(lastOp).status = "paid"
    /\ lastOp.result = FALSE

\* C18: for a user with role 'user' and a document created by somebody
\* else, the access, edit and delete predicates are false, the detail and
\* PDF views answer not-found, the edit view refuses, and the request
\* changes no record.
C18_OwnDocumentsOnly ==
    [][(/\ lastOp'.op \in {"can_access", "can_edit", "can_delete", "detail", "pdf", "edit"}
        /\ lastOp'.user.role = "user"
        /\ DocOf(lastOp').created_by # lastOp'.user.name)
       => /\ CASE lastOp'.op \in {"can_access", "can_edit", "can_delete"} ->
                    lastOp'.result = FALSE
               [] lastOp'.op \in {"detail", "pdf"} -> lastOp'.result = "Http404"
               [] lastOp'.op = "edit" -> lastOp'.result \in {"Http404", "refused"}
          /\ UNCHANGED Records]_vars

\* C18 witness: a user of the document's company who did not create the
\* document has asked for its PDF and got not-found
C18_Witness ==
    /\ lastOp.op = "pdf"
    /\ lastOp.user.role = "user"
    /\ lastOp.user.company = DocOf(lastOp).company
    /\ DocOf(lastOp).created_by # lastOp.user.name
    /\ lastOp.result = "Http404"

\* C19: has_company_permission is true for every permission for owner and
\* admin, true for accountant exactly on create_invoice, create_receipt and
\* view_reports, and false for role user on every permission.
C19_RolePermissions ==
    lastOp.op = "has_permission" =>
        lastOp.result =
            CASE lastOp.user.role \in {"owner", "admin"} -> TRUE
              [] lastOp.user.role = "accountant" ->
                   lastOp.target \in {"create_invoice", "create_receipt", "view_reports"}
              [] lastOp.user.role = "user" -> FALSE

\* C19 witness: an accountant has been denied create_quote
C19_Witness ==
    /\ lastOp.op = "has_permission"
    /\ lastOp.user.role = "accountant"
    /\ lastOp.target = "create_quote"
    /\ lastOp.result = FALSE

\* the request does not get through the gate: nobody logged in, no company,
\* or none of the permissions asked for
FailsGate(u, asked) ==
    \/ ~u.is_authenticated
    \/ u.company = "none"
    \/ asked # {} /\ \A p \in asked : ~has_company_permission(u, p)

\* the permissions a gated request was asked for
AskedOf(op) ==
    IF op.op = "gated_create" THEN {op.target[1]}
    ELSE {op.target[i] : i \in 1..Len(op.target)}

\* C20: a request that fails a permission gate is answered with
\* PermissionDenied and creates, changes or deletes no record.
C20_DeniedBeforeView ==
    [][(/\ lastOp'.op \in {"gated_create", "gated_list"}
        /\ FailsGate(lastOp'.user, AskedOf(lastOp')))
       => /\ lastOp'.result = "PermissionDenied"
          /\ UNCHANGED Records]_vars

\* C20 witness: an accountant has been denied the invoice create view, whose
\* decorator asks for the list ['add_invoice']
C20_Witness ==
    /\ lastOp.op = "gated_create"
    /\ lastOp.user.role = "accountant"
    /\ lastOp.target = <<"[add_invoice]", "invoice">>
    /\ lastOp.result = "PermissionDenied"

-----------------------------------------------------------------------------
(* The audit table: the claim *)

\* C21: an AuditLog row, once stored, is never modified or deleted by a
\* request to the application or to its admin site; the table only grows.
C21_AppendOnly ==
    [][audit_logs.rows \subseteq audit_logs'.rows]_vars

-----------------------------------------------------------------------------
(* Tenants and the order of the permissions: the claims *)

\* C22: for a user who is not authenticated, has no company, or belongs to
\* another company than the document, the access, edit and delete
\* predicates are false whatever the role; filter_by_company returns only
\* documents of the user's company, and nothing for a user without one.
C22_TenantIsolation ==
    /\ (/\ lastOp.op \in {"can_access", "can_edit", "can_delete"}
        /\ \/ ~lastOp.user.is_authenticated
           \/ lastOp.user.company = "none"
           \/ DocOf(lastOp).company # lastOp.user.company)
       => lastOp.result = FALSE
    /\ lastOp.op = "filter" =>
          /\ lastOp.result \subseteq docs
          /\ \A d \in lastOp.result : d.company = lastOp.user.company
          /\ (~lastOp.user.is_authenticated \/ lastOp.user.company = "none")
                => lastOp.result = {}

\* C22 witness: an owner of company B has filtered the documents, of which
\* one belongs to company A, and got those of company B
C22_Witness ==
    /\ lastOp.op = "filter"
    /\ lastOp.user.role = "owner"
    /\ lastOp.user.company = "B"
    /\ lastOp.result # {}
    /\ \E d \in docs : d.company = "A"

\* C27: for every user and document, can_user_delete_document implies
\* can_user_edit_document, which implies can_user_access_document.
C27_Hierarchy ==
    lastOp.op = "can_all" =>
        /\ lastOp.result[3] => lastOp.result[2]
        /\ lastOp.result[2] => lastOp.result[1]

\* C27 witness: the three predicates have been asked for an admin and a
\* document that the admin may delete
C27_Witness ==
    /\ lastOp.op = "can_all"
    /\ lastOp.user.role = "admin"
    /\ lastOp.result = <<TRUE, TRUE, TRUE>>

-----------------------------------------------------------------------------
(* The create views: the claim *)

\* C23: the permission gate of the invoice and receipt create views admits
\* owners, admins and accountants that have a company, and rejects users
\* with role 'user'.
C23_AccountantAdmitted ==
    (/\ lastOp.op = "gated_create"
     /\ lastOp.target[2] \in {"invoice", "receipt"}
     /\ lastOp.user.is_authenticated
     /\ lastOp.user.company # "none")
    => IF lastOp.user.role \in {"owner", "admin", "accountant"}
       THEN lastOp.result # "PermissionDenied"
       ELSE lastOp.result = "PermissionDenied"

-----------------------------------------------------------------------------
(* Numbering across years and across the two services: the claims *)

\* C24: a creation through save() for a company and type that has no
\* document under the current year's prefix stores the new document with
\* sequence 0001 under that prefix, whatever documents exist for other
\* years.
C24_YearScoped ==
    [][(/\ lastOp'.op = "save"
        /\ FilterStartsWith(docs, lastOp'.company, lastOp'.dtype,
                            YearPrefix(lastOp'.company, lastOp'.dtype, year)) = {})
       => /\ lastOp'.result = "ok"
          /\ lastOp'.number =
               YearPrefix(lastOp'.company, lastOp'.dtype, year) \o Format04d(1)]_vars

\* C25: the number generate_next_number returns to a creation view is the
\* number save() would assign to a new document with an empty number in the
\* same database state.
C25_ServicesAgree ==
    [][lastOp'.op = "view_create" =>
        lastOp'.number =
            SaveNumber(docs, lastOp'.company, lastOp'.dtype, year).number]_vars

\* the documents of the current year's series that have reached 9999
PastFourDigits(c, t) ==
    {d \in FilterStartsWith(docs, c, t, YearPrefix(c, t, year)) :
        SeqOf(d.number) >= 9999}

\* C26: once a company's series of the current year holds sequence 9999,
\* every further save() succeeds and stores one more than the largest
\* sequence value (10000, then 10001), a number no stored document carries.
C26_PastFourDigits ==
    [][(/\ lastOp'.op = "save"
        /\ PastFourDigits(lastOp'.company, lastOp'.dtype) # {})
       => /\ lastOp'.result = "ok"
          /\ lastOp'.number =
               LargestPlusOne(docs, lastOp'.company, lastOp'.dtype, year)
          /\ \A d \in docs : d.dtype = lastOp'.dtype => d.number # lastOp'.number]_vars

-----------------------------------------------------------------------------
(* Converting a quote: the claim *)

\* the invoices created from a quote
InvoicesFrom(qid) ==
    {d \in docs : "from_quote" \in DOMAIN d /\ d.from_quote = qid}

\* C28: whatever convert_to_invoice calls have run on a quote, one after
\* the other or interleaved, at most one invoice created from it exists, a
\* call that has returned returned that invoice, and the invoice has the
\* quote's line items.
C28_ConvertedOnce ==
    \A q \in {d \in docs : d.dtype = "quote"} :
        /\ Cardinality(InvoicesFrom(q.id)) <= 1
        /\ (lastOp.op = "convert" /\ lastOp.target = q.id)
              => {<<d.id>> : d \in InvoicesFrom(q.id)} = {lastOp.result}
        /\ \A d \in InvoicesFrom(q.id) : items[d.id] = items[q.id]

-----------------------------------------------------------------------------
(* Downloads and cleanups together: the claims *)

\* C29: a download request that ends in not-found has written no PDFLog
\* field, downloaded_at included, also when a cleanup removed the file while
\* the request was in progress.
C29_MarkOnlyOnServe ==
    [][(lastOp'.op = "download" /\ lastOp'.result = "Http404")
       => /\ pdf_logs' = pdf_logs
          /\ \A p \in Procs :
                (calls[p].pc = "marked" /\ calls'[p].pc = "idle")
                   => calls[p].result # "wrote"]_vars

\* the step is a cleanup that directly follows a cleanup with the same days
SecondCleanup ==
    /\ lastOp.op = "cleanup"
    /\ lastOp'.op = "cleanup"
    /\ lastOp'.arg[1] = lastOp.arg[1]

\* the cleanup that has just run would select no row if it ran again now
NothingLeft == expired_logs(lastOp.arg[1]) = {}

\* once deleted, a row stays deleted, and no download of its token is served
DeletedIsFinal ==
    /\ \A l \in pdf_logs :
          l.deleted => \E k \in pdf_logs' :
                          k.download_token = l.download_token /\ k.deleted
    /\ (lastOp'.op = "download" /\ lastOp'.result = "ok")
          => \A l \in LogsOfToken(lastOp'.token) : ~l.deleted

====
